---------------------------- MODULE Spec2Model ----------------------------
(***************************************************************************)
(* Model of the marker-based rectification engine of lifestone             *)
(* (src/image_processor.py): _detect_markers and process_slab_image, and   *)
(* of the web application that calls it (src/app.py): the routes /,        *)
(* /confirm and /reset_count, and update_activity_log.                     *)
(*                                                                         *)
(* Numbers.  The engine computes in binary floating point.  The model      *)
(* keeps the finite precision: a real number x is the integer x * FP       *)
(* (a fixed-point value with quantum 1/FP) and every multiplication and    *)
(* division rounds its exact result to the nearest representable value,    *)
(* as an IEEE operation does.  Corner coordinates are such numbers too     *)
(* (the detector and the homography give sub-pixel positions); shapes and  *)
(* crop bounds are integers, made by int().                                *)
(***************************************************************************)
EXTENDS Integers, Sequences, FiniteSets, TLC

VARIABLES
    \* ---- _detect_markers taken alone (SpecDetect)
    found,          \* what detector.detectMarkers returned: None or [markers]
    detected,       \* the outcome of _detect_markers(gray) on it, or Pending
    \* ---- the scale computation taken alone, two consecutive calls (SpecScale)
    scaleIn,        \* [t, fw, fh] of the latest call
    scaleOut,       \* [cw, ch, dst_w, dst_h] the latest call computed
    scalePrev,      \* [t, fw, fh, cw, ch] of the call before it, or None
    \* ---- one call of process_slab_image (Spec)
    pc,             \* where the call stands
    args,           \* [t, fw, fh, debug]: thickness (mm), frame (in), debug_path given
    corrected,      \* [cw, ch]: corrected_width_in, corrected_height_in
    file,           \* what input_path holds: [pil, getexif, cv]
    image,          \* [h, w] = image.shape[:2]
    det1,           \* detector output on the full image
    pre,            \* [top, left, right, bottom] of the pre-crop
    det2,           \* detector output on the pre-cropped image
    id_to_corners,  \* marker id -> its 4 corners in the pre-crop
    dst,            \* [w, h] = (dst_w, dst_h)
    warped,         \* [h, w] = warped.shape[:2]
    transformed,    \* marker id -> its 4 corners mapped through M
    bounds,         \* [left, right, top, bottom] after clamping
    final,          \* [h, w] of final_img
    written,        \* [output, info, debug]: what this call has written
    detectCalls,    \* how often this call has entered _detect_markers
    raised,         \* the exception the call ended with, or None
    \* ---- the web application, one session served request by request (SpecApp)
    apc,            \* where /confirm stands: "idle" or "poll" (lines 490-497)
    session,        \* the Flask session: its keys and their values
    uploads,        \* static/uploads: the saved slab images, by path
    log,            \* activity_log.json
    req,            \* the locals of the /confirm in progress, or None
    response,       \* what the latest request returned, or None
    nreq,           \* requests served so far
    \* ---- update_activity_log run by concurrent requests (SpecLog)
    workers,        \* thread -> [pc, tester_email, log_data] of its call
    \* ---- calls of process_slab_image compared by their caller (SpecRepeat)
    earlier         \* input and outcome of a finished call, or None

detectVars == <<found, detected>>
scaleVars  == <<scaleIn, scaleOut, scalePrev>>
pipeVars   == <<pc, args, corrected, file, image, det1, pre, det2, id_to_corners,
                dst, warped, transformed, bounds, final, written, detectCalls, raised>>
appVars    == <<apc, session, uploads, log, req, response, nreq>>
callerVars == <<appVars, workers, earlier>>
engineVars == <<detectVars, scaleVars, pipeVars>>
vars       == <<detectVars, scaleVars, pipeVars, callerVars>>

\* Python's None, and a result not computed yet: records, as every other
\* value of the variables that hold them
None    == [none |-> TRUE]
Pending == [pending |-> TRUE]

Range(s) == {s[i] : i \in DOMAIN s}

Max(S) == CHOOSE x \in S : \A y \in S : y <= x
Min(S) == CHOOSE x \in S : \A y \in S : x <= y

(***************************************************************************)
(* Finite-precision arithmetic                                             *)
(***************************************************************************)
\* Representable values per unit: the precision of the model's numbers.
FP == 200

\* a / b rounded to the nearest integer (b > 0), halves upward
RoundDiv(a, b) == (a + b \div 2) \div b

\* x * y and x / y on fixed-point values, rounded like a float operation
FMul(x, y) == RoundDiv(x * y, FP)
FDiv(x, y) == RoundDiv(x * FP, y)

\* Python's int(x) on a float: truncation toward zero
IntOf(x) == IF x >= 0 THEN x \div FP ELSE -((-x) \div FP)

\* a decimal literal n / d of the source in the model's precision
Lit(n, d) == RoundDiv(n * FP, d)

\* the integer n as a float
Px(n) == n * FP

(***************************************************************************)
(* Constants (src/image_processor.py:9-15)                                 *)
(***************************************************************************)
REQUIRED_IDS         == <<1, 18, 43, 14>>
BOTTOM_EXTRA_PX      == 300
PRE_MARGIN_PX        == 244
TARGET_PPI           == Lit(254, 10)
CAMERA_DISTANCE_IN   == Lit(120, 1)
SUPPORT_THICKNESS_IN == Lit(245, 1000)
MM_PER_INCH          == Lit(254, 10)       \* the literal 25.4 of lines 63, 112-114

(***************************************************************************)
(* _detect_markers (lines 31-41)                                           *)
(***************************************************************************)
\* ids.flatten().tolist()
IdsFlat(markers) == [i \in DOMAIN markers |-> markers[i].id]

ValueError(msg, missing) == [type |-> "ValueError", msg |-> msg, missing |-> missing]

NoMarkersMsg  == "No ArUco markers detected."
MissingIdsMsg == "Missing marker IDs"

\* [mid for mid in REQUIRED_IDS if mid not in ids_flat]
MissingOf(idsFlat) == SelectSeq(REQUIRED_IDS, LAMBDA mid : mid \notin Range(idsFlat))

\* mutants of _detect_markers
DetectMarkers_NoCountCheck(det) ==
    IF det = None
    THEN [ok |-> FALSE, error |-> ValueError(NoMarkersMsg, <<>>)]
    ELSE LET missing == MissingOf(IdsFlat(det.markers))
         IN  IF missing # <<>>
             THEN [ok |-> FALSE, error |-> ValueError(MissingIdsMsg, missing)]
             ELSE [ok |-> TRUE, markers |-> det.markers]

DetectMarkers_FirstMissingOnly(det) ==
    IF det = None \/ Len(det.markers) < 4
    THEN [ok |-> FALSE, error |-> ValueError(NoMarkersMsg, <<>>)]
    ELSE LET missing == MissingOf(IdsFlat(det.markers))
         IN  IF missing # <<>>
             THEN [ok |-> FALSE, error |-> ValueError(MissingIdsMsg, <<REQUIRED_IDS[1]>>)]
             ELSE [ok |-> TRUE, markers |-> det.markers]

\* The result of _detect_markers when the detector returned det: the raised
\* ValueError, or the markers (corners, ids) it returns.
DetectMarkers(det) ==
    IF det = None \/ Len(det.markers) < 4
    THEN [ok |-> FALSE, error |-> ValueError(NoMarkersMsg, <<>>)]
    ELSE LET missing == MissingOf(IdsFlat(det.markers))
         IN  IF missing # <<>>
             THEN [ok |-> FALSE, error |-> ValueError(MissingIdsMsg, missing)]
             ELSE [ok |-> TRUE, markers |-> det.markers]


(***************************************************************************)
(* Detector outputs used as inputs                                         *)
(***************************************************************************)
\* An axis-aligned square marker: corners (sub-pixel positions) in the
\* detector's order (0 top-left, 1 top-right, 2 bottom-right, 3 bottom-left).
SquareMarker(id, x, y, side) ==
    [id |-> id,
     corners |-> << <<x, y>>, <<x + side, y>>, <<x + side, y + side>>, <<x, y + side>> >>]

\* The photographed scene: h x w pixels, the four frame markers near its
\* corners and one marker (ID 7) that is not a frame marker.
ImageSize == <<3000, 4000>>

SceneIds == {1, 18, 43, 14, 7}

SceneMarker(id) ==
    CASE id = 1  -> SquareMarker(1, Lit(2003, 10), Lit(1507, 10), Lit(1002, 10))
      [] id = 18 -> SquareMarker(18, Lit(37004, 10), Lit(1606, 10), Lit(1001, 10))
      [] id = 43 -> SquareMarker(43, Lit(36908, 10), Lit(26002, 10), Lit(1003, 10))
      [] id = 14 -> SquareMarker(14, Lit(2105, 10), Lit(26109, 10), Lit(1004, 10))
      [] OTHER   -> SquareMarker(id, Lit(19001, 10), Lit(14002, 10), Lit(1000, 10))

\* The same scene photographed so that marker 43 reaches the image's last row
\* and last column: its bottom-right corner is the pixel (w-1, h-1).
EdgeMarker(id) ==
    IF id = 43
    THEN SquareMarker(43, Px(ImageSize[2] - 1) - Lit(1003, 10),
                          Px(ImageSize[1] - 1) - Lit(1003, 10), Lit(1003, 10))
    ELSE SceneMarker(id)

\* Longest detection list examined
MaxDetected == 5

BoundedSeq(S, n) == UNION {[1..k -> S] : k \in 0..n}

\* Every detector output up to MaxDetected markers (an ID may be found twice)
Detections ==
    {None} \cup {[markers |-> [i \in DOMAIN s |-> SceneMarker(s[i])]] :
                     s \in BoundedSeq(SceneIds, MaxDetected)}

(***************************************************************************)
(* Scale computation (lines 62-68, 112-114)                                *)
(***************************************************************************)
\* stone_thickness_in + SUPPORT_THICKNESS_IN
TotalOffsetIn(t) == FDiv(t, MM_PER_INCH) + SUPPORT_THICKNESS_IN

\* mutant: the offset is added to the camera distance
CorrectedIn_Added(frame, t) ==
    FDiv(FMul(frame, CAMERA_DISTANCE_IN + TotalOffsetIn(t)), CAMERA_DISTANCE_IN)

\* frame * (CAMERA_DISTANCE_IN - total_offset_in) / CAMERA_DISTANCE_IN
CorrectedIn(frame, t) ==
    FDiv(FMul(frame, CAMERA_DISTANCE_IN - TotalOffsetIn(t)), CAMERA_DISTANCE_IN)

\* mutant: the pixel count is rounded to the nearest integer
TargetPx_Rounded(inches) ==
    IntOf(FMul(FMul(inches, MM_PER_INCH), FDiv(TARGET_PPI, MM_PER_INCH)) + FP \div 2)

\* int(corrected_in * 25.4 * px_per_mm), px_per_mm = TARGET_PPI / 25.4
TargetPx(inches) ==
    IntOf(FMul(FMul(inches, MM_PER_INCH), FDiv(TARGET_PPI, MM_PER_INCH)))

\* Inputs of the scale computation: thicknesses in mm (30 mm and the
\* representable values next to it, thin and thick slabs, and slabs reaching
\* the camera), frames in inches (the default 153.625 x 94.2 and two others,
\* each side long enough for one quantum of the offset to show in the result).
ThicknessSteps == 30

ScaleThicknesses ==
    {Lit(30, 1) + k : k \in 0..ThicknessSteps}
        \cup {0, Lit(1, 1), Lit(20, 1), Lit(3000, 1), Lit(3042, 1), Lit(3100, 1)}

DefaultFrame == <<Lit(153625, 1000), Lit(942, 10)>>

ScaleFrames == {DefaultFrame, <<Lit(200, 1), Lit(125, 1)>>, <<Lit(120, 1), Lit(130, 1)>>}

(***************************************************************************)
(* SpecDetect: _detect_markers applied to every detector output            *)
(***************************************************************************)
PipeIdle ==
    /\ pc = "idle"
    /\ args = None /\ corrected = Pending /\ file = None /\ image = Pending
    /\ det1 = Pending /\ pre = Pending /\ det2 = Pending /\ id_to_corners = <<>>
    /\ dst = Pending /\ warped = Pending /\ transformed = <<>>
    /\ bounds = Pending /\ final = Pending
    /\ written = [output |-> FALSE, info |-> FALSE, debug |-> FALSE]
    /\ detectCalls = 0
    /\ raised = None

DetectIdle == found = None /\ detected = Pending

\* the application has served no request: an empty session, no upload, the
\* activity log as init_activity_log writes it (app.py:44-47)
AppIdle ==
    /\ apc = "idle"
    /\ session = <<>>
    /\ uploads = <<>>
    /\ log = [total_submissions |-> 0, testers |-> <<>>]
    /\ req = None
    /\ response = None
    /\ nreq = 0

CallerIdle == AppIdle /\ workers = <<>> /\ earlier = None

ScaleIdle  == scaleIn = None /\ scaleOut = Pending /\ scalePrev = None

DetectInit ==
    /\ found \in Detections
    /\ detected = Pending
    /\ ScaleIdle
    /\ PipeIdle
    /\ CallerIdle

\* _detect_markers(gray)
DetectStep ==
    /\ detected = Pending
    /\ detected' = DetectMarkers(found)
    /\ UNCHANGED <<found, scaleVars, pipeVars, callerVars>>

SpecDetect == DetectInit /\ [][DetectStep]_vars

(***************************************************************************)
(* SpecScale: the scale computation of consecutive calls on one frame      *)
(***************************************************************************)
ScaleInit ==
    /\ \E t \in ScaleThicknesses, f \in ScaleFrames :
           scaleIn = [t |-> t, fw |-> f[1], fh |-> f[2]]
    /\ scaleOut = Pending
    /\ scalePrev = None
    /\ DetectIdle
    /\ PipeIdle
    /\ CallerIdle

\* lines 63-68 and 112-114 of the call
ResolveScale ==
    /\ scaleOut = Pending
    /\ scaleOut' = [cw    |-> CorrectedIn(scaleIn.fw, scaleIn.t),
                    ch    |-> CorrectedIn(scaleIn.fh, scaleIn.t),
                    dst_w |-> TargetPx(CorrectedIn(scaleIn.fw, scaleIn.t)),
                    dst_h |-> TargetPx(CorrectedIn(scaleIn.fh, scaleIn.t))]
    /\ UNCHANGED <<scaleIn, scalePrev, detectVars, pipeVars, callerVars>>

\* a further call with another thickness, the other parameters held fixed
NextScaleCall ==
    /\ scaleOut # Pending
    /\ \E t \in ScaleThicknesses :
           scaleIn' = [scaleIn EXCEPT !.t = t]
    /\ scalePrev' = [t |-> scaleIn.t, fw |-> scaleIn.fw, fh |-> scaleIn.fh,
                     cw |-> scaleOut.cw, ch |-> scaleOut.ch]
    /\ scaleOut' = Pending
    /\ UNCHANGED <<detectVars, pipeVars, callerVars>>

ScaleNext == ResolveScale \/ NextScaleCall

SpecScale == ScaleInit /\ [][ScaleNext]_vars


(***************************************************************************)
(* process_slab_image (lines 47-172): operators                            *)
(***************************************************************************)
Raise(type, msg) == [type |-> type, msg |-> msg, missing |-> <<>>]

CannotLoadMsg  == "Cannot load image"
InvalidCropMsg == "Invalid crop boundaries after perspective transform."

\* What input_path may hold: whether PIL's Image.open identifies it, whether
\* the opened image has _getexif (JPEG has, BMP has not), whether cv2.imread
\* decodes it.
FileKinds == [pil : BOOLEAN, getexif : BOOLEAN, cv : BOOLEAN]

\* Stage 0 (lines 73-80): the exception it ends with, or None
LoadOutcome(k) ==
    IF ~k.pil THEN Raise("UnidentifiedImageError", "cannot identify image file")
    ELSE IF ~k.getexif THEN Raise("AttributeError", "_getexif")
    ELSE IF ~k.cv THEN ValueError(CannotLoadMsg, <<>>)
    ELSE None

\* all_pts: every corner of every detected marker
AllPts(markers) == UNION {Range(markers[i].corners) : i \in DOMAIN markers}

\* pre_top, pre_left, pre_right, pre_bottom (lines 86-94)
PreCropBox(markers, h, w) ==
    LET pts   == AllPts(markers)
        x_min == Min({p[1] : p \in pts})
        y_min == Min({p[2] : p \in pts})
        x_max == Max({p[1] : p \in pts})
        y_max == Max({p[2] : p \in pts})
    IN  [top    |-> IntOf(Max({y_min - Px(10), 0})),
         left   |-> IntOf(Max({x_min - Px(10), 0})),
         right  |-> IntOf(Min({x_max + Px(10), Px(w - 1)})),
         bottom |-> IntOf(Min({y_max + Px(PRE_MARGIN_PX), Px(h - 1)}))]

\* shape of image[pre_top:pre_bottom, pre_left:pre_right]
PreShape(b) == [h |-> Max({b.bottom - b.top, 0}), w |-> Max({b.right - b.left, 0})]

\* a detection seen in the pre-crop's coordinate frame
Shifted(markers, dx, dy) ==
    [i \in DOMAIN markers |->
        [id |-> markers[i].id,
         corners |-> [k \in 1..4 |-> <<markers[i].corners[k][1] - Px(dx),
                                       markers[i].corners[k][2] - Px(dy)>>]]]

\* {id_[0]: c.reshape(4,2) for c, id_ in zip(corners_pre, ids_pre)}: a later
\* entry of the same id replaces an earlier one
IdToCorners(markers) ==
    [m \in Range(IdsFlat(markers)) |->
        markers[Max({i \in DOMAIN markers : markers[i].id = m})].corners]

\* dst_pts (lines 116-121)
DstPts(dst_w, dst_h) ==
    << <<0, 0>>, <<Px(dst_w - 1), 0>>, <<Px(dst_w - 1), Px(dst_h - 1)>>,
       <<0, Px(dst_h - 1)>> >>

\* the corner of each frame marker that src_pts takes (lines 105-110),
\* counted from 1
RefCorner(m) == CASE m = 1 -> 1 [] m = 18 -> 2 [] m = 43 -> 3 [] m = 14 -> 4

\* warped.shape[:2] after cv2.warpPerspective(pre_cropped, M, (dst_w, dst_h)):
\* OpenCV allocates dsize, or the source's size when dsize is empty
\* (a width or height <= 0)
WarpedShape(dst_w, dst_h, src) ==
    IF dst_w <= 0 \/ dst_h <= 0 THEN src ELSE [h |-> dst_h, w |-> dst_w]

\* A marker's polygon in rectified space: an axis-parallel box of signed
\* extent e (negative: mirrored) whose corner k lies at point d.
Placed(k, d, e) ==
    LET ox == IF k \in {2, 3} THEN d[1] - e[1] ELSE d[1]
        oy == IF k \in {3, 4} THEN d[2] - e[2] ELSE d[2]
    IN  << <<ox, oy>>, <<ox + e[1], oy>>, <<ox + e[1], oy + e[2]>>, <<ox, oy + e[2]>> >>

\* Where the homography may send the frame markers: M maps each reference
\* corner onto its dst_pts corner (what getPerspectiveTransform solves for);
\* the extent of each marker is the image's: ordinary, mirrored, or larger
\* than the target.
MarkerExtents ==
    {<<Lit(1205, 10), Lit(1103, 10)>>, <<-Lit(405, 10), -Lit(305, 10)>>,
     <<Px(5000), Lit(1005, 10)>>, <<Lit(1005, 10), Px(5000)>>}

Layouts == [Range(REQUIRED_IDS) -> MarkerExtents]

\* transformed[mid] for every mid of id_to_corners (lines 129-133)
Transformed(ids, d, layout) ==
    [m \in ids |->
        IF m \in Range(REQUIRED_IDS)
        THEN Placed(RefCorner(m), DstPts(d.w, d.h)[RefCorner(m)], layout[m])
        ELSE Placed(1, <<Px(d.w \div 2), Px(d.h \div 2)>>, <<Px(100), Px(100)>>)]

\* np.max(pts[:,c]), np.min(pts[:,c]); c = 1 is x, c = 2 is y
ColMax(pts, c) == Max({pts[i][c] : i \in DOMAIN pts})
ColMin(pts, c) == Min({pts[i][c] : i \in DOMAIN pts})

\* np.clip(x, lo, hi)
Clip(x, lo, hi) == Min({Max({x, lo}), hi})

\* mutant: the left boundary is taken from the two top markers
InteriorBounds_TopMarkersForLeft(tr, shape) ==
    LET left_boundary   == Max({ColMax(tr[m], 1) : m \in {1, 18}})
        right_boundary  == Min({ColMin(tr[m], 1) : m \in {18, 43}})
        top_boundary    == Max({ColMax(tr[m], 2) : m \in {1, 18}})
        bottom_boundary == Max({ColMax(tr[m], 2) : m \in {14, 43}})
    IN  [left   |-> IntOf(Clip(left_boundary, 0, Px(shape.w - 1))),
         right  |-> IntOf(Clip(right_boundary, 0, Px(shape.w - 1))),
         top    |-> IntOf(Clip(top_boundary, 0, Px(shape.h - 1))),
         bottom |-> IntOf(Clip(bottom_boundary + Px(BOTTOM_EXTRA_PX), 0, Px(shape.h - 1)))]

\* left, right, top, bottom (lines 135-144): int(np.clip(...))
InteriorBounds(tr, shape) ==
    LET left_boundary   == Max({ColMax(tr[m], 1) : m \in {1, 14}})
        right_boundary  == Min({ColMin(tr[m], 1) : m \in {18, 43}})
        top_boundary    == Max({ColMax(tr[m], 2) : m \in {1, 18}})
        bottom_boundary == Max({ColMax(tr[m], 2) : m \in {14, 43}})
    IN  [left   |-> IntOf(Clip(left_boundary, 0, Px(shape.w - 1))),
         right  |-> IntOf(Clip(right_boundary, 0, Px(shape.w - 1))),
         top    |-> IntOf(Clip(top_boundary, 0, Px(shape.h - 1))),
         bottom |-> IntOf(Clip(bottom_boundary + Px(BOTTOM_EXTRA_PX), 0, Px(shape.h - 1)))]

\* mutant: only a crossed boundary is refused, an empty one passes
InvalidCrop_StrictOnly(b) == b.left > b.right \/ b.top > b.bottom

\* the test of line 146
InvalidCrop(b) == b.left >= b.right \/ b.top >= b.bottom

(***************************************************************************)
(* process_slab_image: inputs                                              *)
(***************************************************************************)
\* stone_thickness_mm: 30 mm, the thickness at which the slab and its
\* support reach the camera (scale factor 0), and one beyond it
PipelineThicknesses == {Lit(30, 1), Lit(3041775, 1000), Lit(3100, 1)}

\* (frame_width_in, frame_height_in): the default and a very low frame
PipelineFrames == {DefaultFrame, <<Lit(153625, 1000), Lit(2, 100)>>}

\* what the detector may report on the scene: nothing, or any of its markers
SceneOrder == <<1, 18, 43, 14, 7>>

SceneSeen(mask) ==
    LET s == SelectSeq(SceneOrder, LAMBDA id : id \in mask)
    IN  [i \in DOMAIN s |-> SceneMarker(s[i])]

\* all markers of the scene whose marker 43 lies on the image's edge
EdgeSeen == [i \in DOMAIN SceneOrder |-> EdgeMarker(SceneOrder[i])]

PipelineDetections ==
    {None} \cup {[markers |-> SceneSeen(mask)] : mask \in SUBSET SceneIds}
           \cup {[markers |-> EdgeSeen]}

(***************************************************************************)
(* process_slab_image: the steps of one call                               *)
(***************************************************************************)
Fail(e) == pc' = "failed" /\ raised' = e

\* mutant: the exception of the call before is not cleared on entry
Call_KeepsRaised ==
    /\ pc \in {"idle", "done", "failed"}
    /\ \E t \in PipelineThicknesses, f \in PipelineFrames, d \in BOOLEAN :
          /\ args' = [t |-> t, fw |-> f[1], fh |-> f[2], debug |-> d]
          /\ corrected' = [cw |-> CorrectedIn(f[1], t), ch |-> CorrectedIn(f[2], t)]
    /\ pc' = "load"
    /\ file' = None /\ image' = Pending
    /\ det1' = Pending /\ pre' = Pending /\ det2' = Pending /\ id_to_corners' = <<>>
    /\ dst' = Pending /\ warped' = Pending /\ transformed' = <<>>
    /\ bounds' = Pending /\ final' = Pending
    /\ written' = [output |-> FALSE, info |-> FALSE, debug |-> FALSE]
    /\ detectCalls' = 0
    /\ raised' = raised
    /\ UNCHANGED <<detectVars, scaleVars, callerVars>>

\* entry, lines 62-68
Call ==
    /\ pc \in {"idle", "done", "failed"}
    /\ \E t \in PipelineThicknesses, f \in PipelineFrames, d \in BOOLEAN :
          /\ args' = [t |-> t, fw |-> f[1], fh |-> f[2], debug |-> d]
          /\ corrected' = [cw |-> CorrectedIn(f[1], t), ch |-> CorrectedIn(f[2], t)]
    /\ pc' = "load"
    /\ file' = None /\ image' = Pending
    /\ det1' = Pending /\ pre' = Pending /\ det2' = Pending /\ id_to_corners' = <<>>
    /\ dst' = Pending /\ warped' = Pending /\ transformed' = <<>>
    /\ bounds' = Pending /\ final' = Pending
    /\ written' = [output |-> FALSE, info |-> FALSE, debug |-> FALSE]
    /\ detectCalls' = 0
    /\ raised' = None
    /\ UNCHANGED <<detectVars, scaleVars, callerVars>>

\* Stage 0, lines 73-80
LoadImage ==
    /\ pc = "load"
    /\ \E k \in FileKinds :
          /\ file' = k
          /\ IF LoadOutcome(k) # None
             THEN Fail(LoadOutcome(k)) /\ image' = image
             ELSE /\ image' = [h |-> ImageSize[1], w |-> ImageSize[2]]
                  /\ pc' = "detect1"
                  /\ raised' = raised
    /\ UNCHANGED <<args, corrected, det1, pre, det2, id_to_corners, dst, warped, transformed, bounds, final, written, detectCalls,
                   detectVars, scaleVars, callerVars>>

\* line 85
Detect1 ==
    /\ pc = "detect1"
    /\ detectCalls' = detectCalls + 1
    /\ \E d \in PipelineDetections :
          /\ det1' = d
          /\ IF DetectMarkers(d).ok
             THEN pc' = "precrop" /\ raised' = raised
             ELSE Fail(DetectMarkers(d).error)
    /\ UNCHANGED <<args, corrected, file, image, pre, det2, id_to_corners, dst, warped, transformed, bounds, final, written,
                   detectVars, scaleVars, callerVars>>

\* lines 86-97
PreCrop ==
    /\ pc = "precrop"
    /\ pre' = PreCropBox(det1.markers, image.h, image.w)
    /\ IF PreShape(pre').h = 0 \/ PreShape(pre').w = 0
       THEN Fail(Raise("cv2.error", "cvtColor: empty image"))
       ELSE pc' = "detect2" /\ raised' = raised
    /\ UNCHANGED <<args, corrected, file, image, det1, det2, id_to_corners, dst, warped, transformed, bounds, final, written, detectCalls,
                   detectVars, scaleVars, callerVars>>

\* mutant: the second detection is used without _detect_markers' tests, a
\* required ID it lacks shows when id_to_corners is read
Detect2_Unvalidated ==
    /\ pc = "detect2"
    /\ detectCalls' = detectCalls + 1
    /\ \E d \in PipelineDetections :
          /\ det2' = IF d = None THEN None
                     ELSE [markers |-> Shifted(d.markers, pre.left, pre.top)]
          /\ IF det2' # None /\ Range(REQUIRED_IDS) \subseteq Range(IdsFlat(det2'.markers))
             THEN /\ id_to_corners' = IdToCorners(det2'.markers)
                  /\ pc' = "warp"
                  /\ raised' = raised
             ELSE Fail(Raise("KeyError", "id_to_corners")) /\ id_to_corners' = id_to_corners
    /\ UNCHANGED <<args, corrected, file, image, det1, pre, dst, warped, transformed, bounds, final, written,
                   detectVars, scaleVars, callerVars>>

\* lines 99-100
Detect2 ==
    /\ pc = "detect2"
    /\ detectCalls' = detectCalls + 1
    /\ \E d \in PipelineDetections :
          /\ det2' = IF d = None THEN None
                     ELSE [markers |-> Shifted(d.markers, pre.left, pre.top)]
          /\ IF DetectMarkers(det2').ok
             THEN /\ id_to_corners' = IdToCorners(DetectMarkers(det2').markers)
                  /\ pc' = "warp"
                  /\ raised' = raised
             ELSE Fail(DetectMarkers(det2').error) /\ id_to_corners' = id_to_corners
    /\ UNCHANGED <<args, corrected, file, image, det1, pre, dst, warped, transformed, bounds, final, written,
                   detectVars, scaleVars, callerVars>>

\* Stage 2, lines 105-133
Warp ==
    /\ pc = "warp"
    /\ dst' = [w |-> TargetPx(corrected.cw), h |-> TargetPx(corrected.ch)]
    /\ warped' = WarpedShape(dst'.w, dst'.h, PreShape(pre))
    /\ \E layout \in Layouts :
          transformed' = Transformed(DOMAIN id_to_corners, dst', layout)
    /\ pc' = "crop"
    /\ UNCHANGED <<args, corrected, file, image, det1, pre, det2, id_to_corners, bounds, final, written, detectCalls, raised,
                   detectVars, scaleVars, callerVars>>

\* mutant: the image is saved before the boundaries are tested
InteriorCrop_SaveFirst ==
    /\ pc = "crop"
    /\ bounds' = InteriorBounds(transformed, warped)
    /\ written' = [written EXCEPT !.output = TRUE]
    /\ IF InvalidCrop(bounds')
       THEN Fail(ValueError(InvalidCropMsg, <<>>)) /\ final' = final
       ELSE /\ final' = [h |-> bounds'.bottom - bounds'.top,
                         w |-> bounds'.right - bounds'.left]
            /\ pc' = "save"
            /\ raised' = raised
    /\ UNCHANGED <<args, corrected, file, image, det1, pre, det2, id_to_corners,
                   dst, warped, transformed, detectCalls, detectVars, scaleVars, callerVars>>

\* lines 135-149
InteriorCrop ==
    /\ pc = "crop"
    /\ bounds' = InteriorBounds(transformed, warped)
    /\ IF InvalidCrop(bounds')
       THEN Fail(ValueError(InvalidCropMsg, <<>>)) /\ final' = final
       ELSE /\ final' = [h |-> bounds'.bottom - bounds'.top,
                         w |-> bounds'.right - bounds'.left]
            /\ pc' = "save"
            /\ raised' = raised
    /\ UNCHANGED <<args, corrected, file, image, det1, pre, det2, id_to_corners, dst, warped, transformed, written, detectCalls,
                   detectVars, scaleVars, callerVars>>

\* lines 154-155: the image is written to output_path, or the sink refuses
SaveImage ==
    /\ pc = "save"
    /\ \E ok \in BOOLEAN :
          IF ok
          THEN /\ written' = [written EXCEPT !.output = TRUE]
               /\ pc' = "info"
               /\ raised' = raised
          ELSE Fail(Raise("OSError", "output_path")) /\ written' = written
    /\ UNCHANGED <<args, corrected, file, image, det1, pre, det2, id_to_corners, dst, warped, transformed, bounds, final, detectCalls,
                   detectVars, scaleVars, callerVars>>

\* lines 157-164: open(info_path, "w") and the writes are not guarded
WriteInfo ==
    /\ pc = "info"
    /\ \E ok \in BOOLEAN :
          IF ok
          THEN /\ written' = [written EXCEPT !.info = TRUE]
               /\ pc' = "debug"
               /\ raised' = raised
          ELSE Fail(Raise("OSError", "info_path")) /\ written' = written
    /\ UNCHANGED <<args, corrected, file, image, det1, pre, det2, id_to_corners, dst, warped, transformed, bounds, final, detectCalls,
                   detectVars, scaleVars, callerVars>>

\* lines 166-172: os.makedirs raises when it fails; cv2.imwrite returns False
\* when it cannot write and its result is not looked at
WriteDebug ==
    /\ pc = "debug"
    /\ IF ~args.debug
       THEN pc' = "done" /\ UNCHANGED <<written, raised>>
       ELSE \E outcome \in {"written", "makedirs fails", "imwrite returns False"} :
               CASE outcome = "written" ->
                       /\ written' = [written EXCEPT !.debug = TRUE]
                       /\ pc' = "done"
                       /\ raised' = raised
                 [] outcome = "makedirs fails" ->
                       Fail(Raise("OSError", "debug_path")) /\ written' = written
                 [] OTHER ->
                       pc' = "done" /\ UNCHANGED <<written, raised>>
    /\ UNCHANGED <<args, corrected, file, image, det1, pre, det2, id_to_corners, dst, warped, transformed, bounds, final, detectCalls,
                   detectVars, scaleVars, callerVars>>

Next ==
    \/ Call
    \/ LoadImage
    \/ Detect1
    \/ PreCrop
    \/ Detect2
    \/ Warp
    \/ InteriorCrop
    \/ SaveImage
    \/ WriteInfo
    \/ WriteDebug

Init == PipeIdle /\ DetectIdle /\ ScaleIdle /\ CallerIdle

Spec == Init /\ [][Next]_vars


(***************************************************************************)
(* The web application (src/app.py): session, uploads, activity log        *)
(***************************************************************************)
\* session.get(k, default), session[k] = v, session.pop(k, None); the same
\* on the dictionaries of the activity log
Get(s, k, default) == IF k \in DOMAIN s THEN s[k] ELSE default
Put(s, k, v)       == [x \in DOMAIN s \cup {k} |-> IF x = k THEN v ELSE s[x]]
Pop(s, k)          == [x \in DOMAIN s \ {k} |-> s[x]]

\* The slab images a client uploads, told apart by their bytes; a request
\* without a slab image file
Images   == {"A", "B"}
NoUpload == ""

\* a path no upload has: session.get('slab_image_path') is None
NoPath == 0

\* tester_email of the form
Emails == {"t1", "t2"}

\* What process_slab_image may end with: it returns (None raised), or raises
\* one of the exceptions of the engine
EngineOutcomes ==
    {None,
     ValueError(NoMarkersMsg, <<>>),
     ValueError(MissingIdsMsg, <<43>>),
     ValueError(InvalidCropMsg, <<>>),
     ValueError(CannotLoadMsg, <<>>),
     Raise("UnidentifiedImageError", "cannot identify image file"),
     Raise("OSError", "info_path")}

\* "No ArUco markers detected" in str(e) or "Missing marker IDs" in str(e)
IsMarkerFailure(e) == e.msg \in {NoMarkersMsg, MissingIdsMsg}

\* what output_image_path holds: the bytes of an upload copied unchanged
\* (lines 410-411), or the image process_slab_image made of an upload
\* mutant: the output file is opened for writing and nothing is written
CopyOf_NothingWritten(img) == [kind |-> "copy", image |-> NoUpload]

CopyOf(img)      == [kind |-> "copy", image |-> img]
RectifiedOf(img) == [kind |-> "rectified", image |-> img]

\* update_activity_log, lines 62-67, on the log_data it loaded
UpdatedLog(log_data, tester_email, entry) ==
    LET old == Get(log_data.testers, tester_email, [count |-> 0, submissions |-> <<>>])
        new == [count |-> old.count + 1, submissions |-> Append(old.submissions, entry)]
    IN  [total_submissions |-> log_data.total_submissions + 1,
         testers |-> Put(log_data.testers, tester_email, new)]

\* the log of a server that has taken four submissions before
UsedLog ==
    [total_submissions |-> 4,
     testers |-> Put(<<>>, "t1", [count |-> 4, submissions |-> <<0, 0, 0, 0>>])]

\* line 490
max_attempts == 5

\* mutant: the loop allows one attempt more
MayRetry_OneMore(attempt) == attempt <= max_attempts

\* the loop test of line 492
MayRetry(attempt) == attempt < max_attempts

\* Requests served in one session
MaxRequests == 3

\* a response: the page it shows and its status; for a /confirm that came to
\* generate_pdf, the locals it ended with
Response(status, title, locals) == [status |-> status, title |-> title, locals |-> locals]

(***************************************************************************)
(* The routes /, /confirm and /reset_count, served one after the other     *)
(***************************************************************************)
\* the request returns a page before generate_pdf is reached
Stop(status, title) ==
    /\ apc' = "idle"
    /\ req' = None
    /\ response' = Response(status, title, None)

\* GET / (lines 261-269)
Index ==
    /\ apc = "idle"
    /\ nreq < MaxRequests
    /\ nreq' = nreq + 1
    /\ session' = Pop(Pop(IF "slab_count" \in DOMAIN session THEN session
                          ELSE Put(session, "slab_count", 0),
                          "continue_as_is"), "slab_image_path")
    /\ Stop(200, "index.html")
    /\ UNCHANGED <<uploads, log, engineVars, workers, earlier>>

\* POST /reset_count (lines 528-531)
ResetCount ==
    /\ apc = "idle"
    /\ nreq < MaxRequests
    /\ nreq' = nreq + 1
    /\ session' = Put(session, "slab_count", 0)
    /\ Stop(302, "redirect to index")
    /\ UNCHANGED <<uploads, log, engineVars, workers, earlier>>

\* POST /confirm, lines 272-487: the form is read, the slab image saved, the
\* output image made (copied as is, or by process_slab_image) and the report
\* generated.  What the environment decides: the uploaded image, how
\* process_slab_image ends, whether the copy and generate_pdf succeed.
ConfirmBegin ==
    /\ apc = "idle"
    /\ nreq < MaxRequests
    /\ nreq' = nreq + 1
    /\ \E slab \in Images \cup {NoUpload}, email \in Emails, e \in EngineOutcomes,
          copied \in BOOLEAN, pdf_built \in BOOLEAN :
          LET saved            == IF slab = NoUpload THEN uploads ELSE Append(uploads, slab)
              slab_image       == Len(saved)
              continue_as_is   == Get(session, "continue_as_is", FALSE)
              input_image_path == Get(session, "slab_image_path", NoPath)
              Locals(input, out, calibrated, calls) ==
                  [uploaded |-> slab, input_path |-> input, output |-> out,
                   is_calibrated |-> calibrated, engine_calls |-> calls,
                   report |-> [image |-> out, is_calibrated |-> calibrated],
                   tester_email |-> email, attempt |-> 0, files_found |-> FALSE]
              Proceed(locals) ==
                  IF pdf_built
                  THEN apc' = "poll" /\ req' = locals /\ response' = None
                  ELSE Stop(500, "Internal Server Error")
          IN  /\ uploads' = saved
              /\ IF slab = NoUpload
                 THEN /\ \E title \in {"Missing Required Field", "No Slab Image Uploaded"} :
                            Stop(400, title)
                      /\ session' = session
                 ELSE IF continue_as_is
                 THEN /\ session' = session
                      /\ IF input_image_path = NoPath \/ input_image_path \notin DOMAIN saved
                         THEN Stop(400, "Image Not Found")
                         ELSE IF ~copied
                         THEN Stop(500, "Error Processing Image")
                         ELSE Proceed(Locals(input_image_path,
                                             CopyOf(saved[input_image_path]), FALSE, 0))
                 ELSE IF e = None
                 THEN /\ session' = session
                      /\ Proceed(Locals(slab_image, RectifiedOf(saved[slab_image]), TRUE, 1))
                 ELSE IF e.type = "ValueError" /\ IsMarkerFailure(e)
                 THEN /\ session' = Put(Put(session, "continue_as_is", TRUE),
                                        "slab_image_path", slab_image)
                      /\ Stop(400, "QR Code Detection Failed")
                 ELSE IF e.type = "ValueError"
                 THEN session' = session /\ Stop(500, "Image Processing Error")
                 ELSE session' = session /\ Stop(500, "Unexpected Error")
    /\ UNCHANGED <<log, engineVars, workers, earlier>>

\* lines 492-497: the files are not both there yet, one more wait
PollWait ==
    /\ apc = "poll"
    /\ MayRetry(req.attempt)
    /\ req' = [req EXCEPT !.attempt = @ + 1]
    /\ UNCHANGED <<apc, session, uploads, log, response, nreq,
                   engineVars, workers, earlier>>

\* The loop is left (both files found, or no attempt left) and lines 499-525
\* run: the last test of the files, then the activity log, the slab count
\* and the session flags.  What the environment decides: whether both files
\* exist at line 499, whether the mail to the admin can be sent (line 72).
ConfirmFinish ==
    /\ apc = "poll"
    /\ \E found_in_loop \in BOOLEAN, exist \in BOOLEAN, mail_sent \in BOOLEAN :
          /\ found_in_loop \/ ~MayRetry(req.attempt)
          /\ LET locals  == [req EXCEPT !.files_found = exist]
                 updated == UpdatedLog(log, req.tester_email, nreq)
             IN  IF ~exist
                 THEN /\ response' = Response(500, "File Generation Failed", locals)
                      /\ UNCHANGED <<log, session>>
                 ELSE /\ log' = updated
                      /\ IF updated.total_submissions % 5 = 0 /\ ~mail_sent
                         THEN /\ response' = Response(500, "Internal Server Error", locals)
                              /\ session' = session
                         ELSE /\ response' = Response(200, "confirm.html", locals)
                              /\ session' =
                                    Pop(Pop(Put(session, "slab_count",
                                                Get(session, "slab_count", 0) + 1),
                                            "continue_as_is"), "slab_image_path")
    /\ apc' = "idle"
    /\ req' = None
    /\ UNCHANGED <<uploads, nreq, engineVars, workers, earlier>>

AppNext == Index \/ ResetCount \/ ConfirmBegin \/ PollWait \/ ConfirmFinish

\* the server starts with a new activity log or with one it has used before
AppInit ==
    /\ apc = "idle"
    /\ session = <<>>
    /\ uploads = <<>>
    /\ log \in {[total_submissions |-> 0, testers |-> <<>>], UsedLog}
    /\ req = None
    /\ response = None
    /\ nreq = 0
    /\ workers = <<>> /\ earlier = None
    /\ DetectIdle /\ ScaleIdle /\ PipeIdle

SpecApp == AppInit /\ [][AppNext]_vars

(***************************************************************************)
(* update_activity_log (app.py:50-72) called by requests that the server's *)
(* threads serve at the same time                                          *)
(***************************************************************************)
\* Threads serving requests together
MaxThreads == 3

Threads == 1 .. MaxThreads

\* activity_log.json between open(ACTIVITY_LOG_FILE, 'w') and the end of
\* json.dump: not a complete JSON document
Truncated == [truncated |-> TRUE]

\* lines 62-67: the file is read (json.load raises on an incomplete file)
\* and the copy in log_data is updated
LogLoad(w) ==
    /\ workers[w].pc = "start"
    /\ IF log = Truncated
       THEN workers' = [workers EXCEPT ![w].pc = "failed"]
       ELSE workers' = [workers EXCEPT
                           ![w].pc = "loaded",
                           ![w].log_data = UpdatedLog(log, workers[w].tester_email, w)]
    /\ UNCHANGED <<log, apc, session, uploads, req, response, nreq, engineVars, earlier>>

\* line 57: open(ACTIVITY_LOG_FILE, 'w') empties the file
LogOpen(w) ==
    /\ workers[w].pc = "loaded"
    /\ log' = Truncated
    /\ workers' = [workers EXCEPT ![w].pc = "opened"]
    /\ UNCHANGED <<apc, session, uploads, req, response, nreq, engineVars, earlier>>

\* line 58: json.dump writes log_data; the call returns
LogDump(w) ==
    /\ workers[w].pc = "opened"
    /\ log' = workers[w].log_data
    /\ workers' = [workers EXCEPT ![w].pc = "done"]
    /\ UNCHANGED <<apc, session, uploads, req, response, nreq, engineVars, earlier>>

LogNext == \E w \in Threads : LogLoad(w) \/ LogOpen(w) \/ LogDump(w)

\* a new activity log; every thread is about to call update_activity_log
\* for the tester of its request
LogInit ==
    /\ workers \in [Threads -> [pc : {"start"}, tester_email : Emails, log_data : {None}]]
    /\ log = [total_submissions |-> 0, testers |-> <<>>]
    /\ apc = "idle" /\ session = <<>> /\ uploads = <<>>
    /\ req = None /\ response = None /\ nreq = 0
    /\ earlier = None
    /\ DetectIdle /\ ScaleIdle /\ PipeIdle

SpecLog == LogInit /\ [][LogNext]_vars

(***************************************************************************)
(* Calls of process_slab_image one after the other, a finished one kept    *)
(* by the caller to compare a later call with it                           *)
(***************************************************************************)
\* What a call is given: its arguments and what input_path holds, as the
\* call met it (the file, the markers in it, their places after the warp)
CallInput ==
    [args |-> args, file |-> file, det1 |-> det1, det2 |-> det2,
     transformed |-> transformed]

\* What a call ends with: it returned or raised, the image it made
CallOutcome ==
    [pc |-> pc, raised |-> raised, pre |-> pre, id_to_corners |-> id_to_corners,
     dst |-> dst, warped |-> warped, bounds |-> bounds, final |-> final,
     output |-> written.output]

\* the ids of a detection, in its order
SeenIds(d) == IF d = None THEN <<>> ELSE IdsFlat(d.markers)

\* the photographs of the repeated calls: no marker, the four frame markers,
\* marker 43 hidden
RepeatIds == {<<>>, <<1, 18, 43, 14>>, <<1, 18, 14, 7>>}

\* their geometry: all four markers of one extent
RepeatLayouts == {[m \in Range(REQUIRED_IDS) |-> e] : e \in MarkerExtents}

RepeatCall == Call /\ args'.t = Lit(30, 1)

RepeatDetect1 == Detect1 /\ SeenIds(det1') \in RepeatIds

RepeatDetect2 == Detect2 /\ SeenIds(det2') \in RepeatIds

RepeatWarp ==
    /\ Warp
    /\ \E layout \in RepeatLayouts :
          transformed' = Transformed(DOMAIN id_to_corners, dst', layout)

\* the caller keeps the input and the outcome of the call that has ended
Remember ==
    /\ pc \in {"done", "failed"}
    /\ earlier = None
    /\ earlier' = [input |-> CallInput, outcome |-> CallOutcome]
    /\ UNCHANGED <<engineVars, appVars, workers>>

RepeatNext ==
    \/ RepeatCall
    \/ LoadImage
    \/ RepeatDetect1
    \/ PreCrop
    \/ RepeatDetect2
    \/ RepeatWarp
    \/ InteriorCrop
    \/ SaveImage
    \/ WriteInfo
    \/ WriteDebug
    \/ Remember

SpecRepeat == Init /\ [][RepeatNext]_vars

(***************************************************************************)
(* The error taxonomy of the specification, read off the raised exception  *)
(***************************************************************************)
\* No exception of the engine stands for InvalidGeometryConfig: nothing in
\* process_slab_image tests the scale factor.
KindOf(e) ==
    CASE e = None                                        -> "none"
      [] e.type = "ValueError" /\ e.msg = CannotLoadMsg  -> "ImageLoadFailure"
      [] e.type = "ValueError" /\ e.msg = NoMarkersMsg   -> "MarkerNotDetected"
      [] e.type = "ValueError" /\ e.msg = MissingIdsMsg  -> "MissingRequiredIDs"
      [] e.type = "ValueError" /\ e.msg = InvalidCropMsg -> "InvalidCropBoundary"
      [] OTHER                                           -> "untyped"

TypedFailures ==
    {"ImageLoadFailure", "MarkerNotDetected", "MissingRequiredIDs",
     "InvalidCropBoundary", "InvalidGeometryConfig"}

Required == Range(REQUIRED_IDS)

(***************************************************************************)
(* Properties of _detect_markers (SpecDetect)                              *)
(***************************************************************************)
FoundCount == IF found = None THEN 0 ELSE Len(found.markers)
FoundIds   == IF found = None THEN {} ELSE Range(IdsFlat(found.markers))

\* C1: _detect_markers has exactly one of three outcomes.  Fewer than 4
\* markers (or none): it raises "No ArUco markers detected.".  Otherwise, a
\* required ID absent: it raises the distinct "Missing marker IDs" error whose
\* list holds exactly the absent required IDs.  Otherwise it returns the
\* detected markers; IDs that are not required never make it fail.
C1_DetectOutcomes ==
    detected # Pending =>
        LET absent == Required \ FoundIds
        IN  /\ NoMarkersMsg # MissingIdsMsg
            /\ FoundCount < 4 =>
                  ~detected.ok /\ detected.error = ValueError(NoMarkersMsg, <<>>)
            /\ (FoundCount >= 4 /\ absent # {}) =>
                  /\ ~detected.ok
                  /\ detected.error.type = "ValueError"
                  /\ detected.error.msg = MissingIdsMsg
                  /\ Range(detected.error.missing) = absent
            /\ (FoundCount >= 4 /\ absent = {}) =>
                  detected.ok /\ detected.markers = found.markers

\* five detections, the marker 7 that is not required among them, accepted
C1_Witness ==
    /\ detected # Pending
    /\ FoundCount = 5
    /\ 7 \in FoundIds
    /\ detected.ok

\* the detection holds every required ID but r
AllButOne(r) ==
    /\ found # None
    /\ r \notin FoundIds
    /\ Required \ {r} \subseteq FoundIds

\* C2 as stated: for each required ID r, a detection holding all required IDs
\* but r fails with "Missing marker IDs" naming exactly r.
C2_OneRemovedIsMissingIds ==
    detected # Pending =>
        \A r \in Required :
            AllButOne(r) =>
                ~detected.ok /\ detected.error = ValueError(MissingIdsMsg, <<r>>)

\* C2 amended: such a detection fails with "Missing marker IDs" naming exactly
\* r when it holds at least 4 markers, and with "No ArUco markers detected."
\* when it holds only the three remaining required markers.
C2_OneRemovedAmended ==
    detected # Pending =>
        \A r \in Required :
            AllButOne(r) =>
                /\ ~detected.ok
                /\ FoundCount >= 4 => detected.error = ValueError(MissingIdsMsg, <<r>>)
                /\ FoundCount < 4 => detected.error = ValueError(NoMarkersMsg, <<>>)

\* marker 18 removed, four markers still detected, reported as missing [18]
C2_Witness ==
    /\ detected # Pending
    /\ AllButOne(18)
    /\ FoundCount >= 4
    /\ ~detected.ok
    /\ detected.error = ValueError(MissingIdsMsg, <<18>>)

(***************************************************************************)
(* Properties of the scale computation (SpecScale)                         *)
(***************************************************************************)
\* two calls are there to compare: the frame is positive and unchanged, the
\* thickness grew
ThickerSlab ==
    /\ scalePrev # None
    /\ scaleOut # Pending
    /\ scaleIn.fw > 0 /\ scaleIn.fh > 0
    /\ scalePrev.fw = scaleIn.fw /\ scalePrev.fh = scaleIn.fh
    /\ scalePrev.t < scaleIn.t

\* C10 as stated: a larger slab thickness gives strictly smaller
\* corrected_width_in and corrected_height_in.
C10_StrictlyDecreasing ==
    ThickerSlab => scaleOut.cw < scalePrev.cw /\ scaleOut.ch < scalePrev.ch

\* C10 amended: a larger slab thickness never gives a larger corrected width
\* or height (thicknesses too close for the arithmetic's precision give the
\* same values).
C10_NeverIncreasing ==
    ThickerSlab => scaleOut.cw <= scalePrev.cw /\ scaleOut.ch <= scalePrev.ch

\* a thicker slab whose corrected width and height both came out smaller
C10_Witness ==
    /\ ThickerSlab
    /\ scaleOut.cw < scalePrev.cw
    /\ scaleOut.ch < scalePrev.ch

\* |x|
Abs(x) == IF x >= 0 THEN x ELSE -x

\* camera_distance - (slab_thickness + support_thickness) of the latest call
Clearance == CAMERA_DISTANCE_IN - TotalOffsetIn(scaleIn.t)

\* C11 as stated: corrected_width is frame_width * scale_factor and
\* corrected_height is frame_height * scale_factor, with scale_factor =
\* (camera_distance - (slab_thickness + support_thickness)) / camera_distance,
\* the same factor on both axes: corrected_width * frame_height =
\* corrected_height * frame_width.
C11_EqualsReferenceFormula ==
    scaleOut # Pending =>
        LET scale_factor == FDiv(Clearance, CAMERA_DISTANCE_IN)
        IN  /\ scaleOut.cw = FMul(scaleIn.fw, scale_factor)
            /\ scaleOut.ch = FMul(scaleIn.fh, scale_factor)
            /\ scaleOut.cw * scaleIn.fh = scaleOut.ch * scaleIn.fw

\* corrected * camera_distance is frame * clearance up to the rounding of
\* one multiplication and one division
WithinRounding(c, frame) ==
    2 * Abs(c * CAMERA_DISTANCE_IN - frame * Clearance) <= CAMERA_DISTANCE_IN + FP

\* the integer n is the number p cut toward zero
TruncatesTo(n, p) ==
    IF p >= 0 THEN Px(n) <= p /\ p < Px(n + 1)
    ELSE Px(n - 1) < p /\ p <= Px(n)

\* n is c * 25.4, rounded as one multiplication rounds it, cut to an integer
IsPixelsOf(n, c) ==
    LET exact == c * MM_PER_INCH
    IN  \E p \in (exact \div FP - 1) .. (exact \div FP + 1) :
            2 * Abs(p * FP - exact) <= FP /\ TruncatesTo(n, p)

\* C11 amended: the slab thickness in inches is the thickness in mm divided
\* by 25.4; corrected_width and corrected_height are frame_width and
\* frame_height times (camera_distance - (slab_thickness + support_thickness))
\* / camera_distance up to the rounding of the operations (the product is
\* formed first and then divided), so the two axes have the same factor up
\* to that rounding; the target pixel width and height are the corrected
\* dimensions times 25.4, truncated to an integer.
C11_ReferenceFormulaUpToRounding ==
    scaleOut # Pending =>
        /\ 2 * Abs((TotalOffsetIn(scaleIn.t) - SUPPORT_THICKNESS_IN) * MM_PER_INCH
                      - scaleIn.t * FP) <= MM_PER_INCH
        /\ WithinRounding(scaleOut.cw, scaleIn.fw)
        /\ WithinRounding(scaleOut.ch, scaleIn.fh)
        /\ Abs(scaleOut.cw * scaleIn.fh - scaleOut.ch * scaleIn.fw)
               <= ((scaleIn.fw + scaleIn.fh) * (CAMERA_DISTANCE_IN + FP))
                      \div (2 * CAMERA_DISTANCE_IN) + 1
        /\ IsPixelsOf(scaleOut.dst_w, scaleOut.cw)
        /\ IsPixelsOf(scaleOut.dst_h, scaleOut.ch)

\* a slab below the camera whose corrected width is not the rounded product
\* frame_width * scale_factor, and whose pixel width lost a fraction
C11_Witness ==
    /\ scaleOut # Pending
    /\ Clearance > 0
    /\ scaleOut.cw # FMul(scaleIn.fw, FDiv(Clearance, CAMERA_DISTANCE_IN))
    /\ scaleOut.dst_w > 0
    /\ Px(scaleOut.dst_w) < FMul(scaleOut.cw, MM_PER_INCH)

(***************************************************************************)
(* Properties of process_slab_image (Spec)                                 *)
(***************************************************************************)
Ended == pc \in {"done", "failed"}

\* slab_thickness + support_thickness >= camera_distance
ScaleNotPositive == pc # "idle" /\ TotalOffsetIn(args.t) >= CAMERA_DISTANCE_IN

\* C3: a call whose slab and support thickness reach the camera distance
\* fails with InvalidGeometryConfig, before any marker detection is attempted
\* and before any output is written (calls whose input file cannot be loaded
\* are left aside).
C3_GeometryRejectedFirst ==
    ScaleNotPositive =>
        /\ detectCalls = 0
        /\ ~written.output
        /\ (Ended /\ file # None /\ LoadOutcome(file) = None) =>
              pc = "failed" /\ KindOf(raised) = "InvalidGeometryConfig"

\* C4: when left >= right or top >= bottom after clamping, the call fails
\* with "Invalid crop boundaries after perspective transform." and makes no
\* final image; every final image has 0 <= left < right <= W-1 and
\* 0 <= top < bottom <= H-1 in the rectified W x H image, so its width
\* right-left and height bottom-top are at least 1.
C4_CropNeverDegenerate ==
    /\ (bounds # Pending /\ (bounds.left >= bounds.right \/ bounds.top >= bounds.bottom)) =>
          /\ pc = "failed"
          /\ raised = ValueError(InvalidCropMsg, <<>>)
          /\ final = Pending
    /\ final # Pending =>
          /\ 0 <= bounds.left /\ bounds.left < bounds.right /\ bounds.right <= warped.w - 1
          /\ 0 <= bounds.top /\ bounds.top < bounds.bottom /\ bounds.bottom <= warped.h - 1
          /\ final.w = bounds.right - bounds.left /\ final.w >= 1
          /\ final.h = bounds.bottom - bounds.top /\ final.h >= 1

\* a crop of zero width (left = right) and positive height was refused
C4_Witness ==
    /\ bounds # Pending
    /\ bounds.left = bounds.right
    /\ bounds.top < bounds.bottom
    /\ pc = "failed"
    /\ KindOf(raised) = "InvalidCropBoundary"

\* the x (c = 1) or y (c = 2) coordinates of all transformed corners of the
\* markers ms
CoordsOf(ms, c) == {transformed[m][k][c] : m \in ms, k \in 1..4}

\* the number v clamped into [0, n-1]
Clamped(v, n) == IF v < 0 THEN 0 ELSE IF v > Px(n - 1) THEN Px(n - 1) ELSE v

\* C5 as stated: left is the largest x of the transformed corners of markers
\* 1 and 14, right the smallest x of those of 18 and 43, top the largest y of
\* those of 1 and 18, bottom the largest y of those of 14 and 43 plus 300;
\* the x bounds clamped into [0, W-1] and the y bounds into [0, H-1] of the
\* rectified image are the crop bounds.
C5_BoundsAreClampedExtremes ==
    bounds # Pending =>
        /\ Px(bounds.left)   = Clamped(Max(CoordsOf({1, 14}, 1)), warped.w)
        /\ Px(bounds.right)  = Clamped(Min(CoordsOf({18, 43}, 1)), warped.w)
        /\ Px(bounds.top)    = Clamped(Max(CoordsOf({1, 18}, 2)), warped.h)
        /\ Px(bounds.bottom) = Clamped(Max(CoordsOf({14, 43}, 2)) + Px(300), warped.h)

\* n is the integer part of the number v >= 0
IntegerPartOf(n, v) == Px(n) <= v /\ v < Px(n + 1)

\* C5 amended: each crop bound is the integer part of the clamped value.
C5_BoundsAreTruncatedClampedExtremes ==
    bounds # Pending =>
        /\ IntegerPartOf(bounds.left, Clamped(Max(CoordsOf({1, 14}, 1)), warped.w))
        /\ IntegerPartOf(bounds.right, Clamped(Min(CoordsOf({18, 43}, 1)), warped.w))
        /\ IntegerPartOf(bounds.top, Clamped(Max(CoordsOf({1, 18}, 2)), warped.h))
        /\ IntegerPartOf(bounds.bottom,
                         Clamped(Max(CoordsOf({14, 43}, 2)) + Px(300), warped.h))

\* bounds were computed where marker 14, not marker 1, sets the left bound
\* and marker 43, not 18, the right one, neither clamped, both between pixels
C5_Witness ==
    /\ bounds # Pending
    /\ pc = "save"
    /\ Max(CoordsOf({14}, 1)) > Max(CoordsOf({1}, 1))
    /\ Min(CoordsOf({43}, 1)) < Min(CoordsOf({18}, 1))
    /\ Px(bounds.left) < Max(CoordsOf({14}, 1))
    /\ Max(CoordsOf({14}, 1)) < Px(bounds.left + 1)
    /\ Px(bounds.right) < Min(CoordsOf({43}, 1))
    /\ Min(CoordsOf({43}, 1)) < Px(bounds.right + 1)

\* the corner points of every marker the first detection returned
FirstCorners == AllPts(det1.markers)

\* the point p lies on a pixel of image[pre_top:pre_bottom, pre_left:pre_right]
InPreCrop(p) ==
    /\ Px(pre.left) <= p[1] /\ p[1] < Px(pre.right)
    /\ Px(pre.top) <= p[2] /\ p[2] < Px(pre.bottom)

FailedInPreCropStage ==
    /\ pc = "failed"
    /\ detectCalls >= 1
    /\ DetectMarkers(det1).ok
    /\ dst = Pending

\* C13: when the first detection passed validation, the pre-crop and
\* re-detection step (crop, grayscale conversion, second _detect_markers,
\* id_to_corners) fails only with "No ArUco markers detected." or with
\* "Missing marker IDs", the kinds of the full-frame detection.
C13_NoNewErrorKind ==
    FailedInPreCropStage =>
        KindOf(raised) \in {"MarkerNotDetected", "MissingRequiredIDs"}

\* the first detection passed, the second one on the pre-crop lacked a
\* required ID and the call ended with "Missing marker IDs"
C13_Witness ==
    /\ FailedInPreCropStage
    /\ pre # Pending
    /\ detectCalls = 2
    /\ KindOf(raised) = "MissingRequiredIDs"
    /\ raised.missing # <<>>

\* C6: whenever the call succeeds, the warped buffer has exactly the computed
\* target size dst_w x dst_h, and the final image is strictly smaller than it
\* in width and in height.
C6_WarpedIsTargetSize ==
    pc = "done" =>
        /\ warped = [h |-> dst.h, w |-> dst.w]
        /\ final.w < dst.w
        /\ final.h < dst.h

\* C7: when the call ends in a typed failure, nothing has been written to
\* output_path.
C7_NoOutputOnTypedFailure ==
    (pc = "failed" /\ KindOf(raised) \in TypedFailures) => ~written.output

\* the last test before the save, the crop boundaries, failed: nothing written
C7_Witness ==
    /\ pc = "failed"
    /\ KindOf(raised) = "InvalidCropBoundary"
    /\ detectCalls = 2
    /\ ~written.output

\* C8: once the rectified image has been written, the call does not fail:
\* a failing sidecar or debug write is not propagated to the caller.
C8_MetadataFailureSwallowed ==
    written.output => pc # "failed"

\* C9: an input that cannot be decoded makes the call fail with
\* "Cannot load image", before any marker detection is attempted.
C9_UndecodableIsLoadFailure ==
    (file # None /\ ~file.cv) =>
        /\ pc = "failed"
        /\ raised = ValueError(CannotLoadMsg, <<>>)
        /\ detectCalls = 0

(***************************************************************************)
(* Properties of the web application (SpecApp)                             *)
(***************************************************************************)
\* the latest request was a /confirm that came to generate its report
Reported == response # None /\ response.locals # None

\* the latest request was a /confirm that returned the confirmation page
Succeeded == Reported /\ response.title = "confirm.html"

\* C14: whenever a /confirm comes to its report with is_calibrated = false,
\* the image at the output path is an unchanged copy of the original
\* uploaded image that the session's slab_image_path names (the bytes of an
\* uploaded image, never an empty buffer), process_slab_image was not
\* called by that request, and the report was generated with
\* is_calibrated = false.
C14_UncalibratedIsUnmodifiedCopy ==
    (Reported /\ ~response.locals.is_calibrated) =>
        /\ response.locals.output.kind = "copy"
        /\ response.locals.output.image = uploads[response.locals.input_path]
        /\ response.locals.output.image \in Images
        /\ response.locals.engine_calls = 0
        /\ response.locals.report.is_calibrated = FALSE
        /\ response.locals.report.image = response.locals.output

\* a /confirm returned the confirmation page for an uncalibrated image
C14_Witness ==
    /\ Succeeded
    /\ ~response.locals.is_calibrated
    /\ response.locals.output.kind = "copy"
    /\ response.locals.output.image = "A"

\* C16: the image a successful /confirm places in its report is derived
\* from the slab image uploaded in that same request, never from an image
\* an earlier request uploaded.
C16_ReportShowsThisUpload ==
    Succeeded => response.locals.output.image = response.locals.uploaded

\* the session's slab count, 0 when it has none
SlabCount(s) == Get(s, "slab_count", 0)

\* the flags a failed detection sets are in the session
Flagged(s) == "continue_as_is" \in DOMAIN s \/ "slab_image_path" \in DOMAIN s

\* C18: the polling of /confirm waits at most 5 times; the activity log
\* is updated, the slab count incremented (by exactly 1) and the session
\* flags cleared only when both files exist at the final check; when a file
\* is missing there the request returns "File Generation Failed" and the
\* activity log and the slab count are unchanged.
C18_PollingBoundedBookkeepingFollows ==
    [][apc = "poll" =>
          /\ req.attempt <= 5
          /\ apc' = "poll" =>
                /\ req'.attempt = req.attempt + 1
                /\ req'.attempt <= 5
                /\ log' = log /\ session' = session
          /\ apc' = "idle" =>
                /\ (\/ log' # log
                    \/ SlabCount(session') # SlabCount(session)
                    \/ Flagged(session) /\ ~Flagged(session'))
                       => response'.locals.files_found
                /\ SlabCount(session') # SlabCount(session) =>
                       SlabCount(session') = SlabCount(session) + 1
                /\ ~response'.locals.files_found =>
                       /\ response'.status = 500
                       /\ response'.title = "File Generation Failed"
                       /\ log' = log
                       /\ SlabCount(session') = SlabCount(session)
                /\ response'.title = "confirm.html" =>
                       /\ log'.total_submissions = log.total_submissions + 1
                       /\ SlabCount(session') = SlabCount(session) + 1
                       /\ ~Flagged(session')]_vars

\* a /confirm waited 5 times, found a file missing at the final check and
\* returned "File Generation Failed"
C18_Witness ==
    /\ Reported
    /\ response.locals.attempt = 5
    /\ ~response.locals.files_found
    /\ response.title = "File Generation Failed"

(***************************************************************************)
(* Properties of the activity log (SpecLog)                                *)
(***************************************************************************)
\* the calls of update_activity_log that have returned
CompletedCalls == {w \in Threads : workers[w].pc = "done"}

\* no call is under way
LogQuiet == \A w \in Threads : workers[w].pc \in {"done", "failed"}

RECURSIVE SumOfCounts(_, _)
SumOfCounts(testers, emails) ==
    IF emails = {} THEN 0
    ELSE LET e == CHOOSE x \in emails : TRUE
         IN  testers[e].count + SumOfCounts(testers, emails \ {e})

\* C17: after any interleaving of requests that each call
\* update_activity_log once, the stored total_submissions is the number of
\* completed calls and the sum of the testers' counts, and every tester's
\* count is the length of that tester's submissions list.
C17_NoSubmissionLost ==
    LogQuiet =>
        /\ log # Truncated
        /\ log.total_submissions = Cardinality(CompletedCalls)
        /\ log.total_submissions = SumOfCounts(log.testers, DOMAIN log.testers)
        /\ \A e \in DOMAIN log.testers :
               log.testers[e].count = Len(log.testers[e].submissions)

(***************************************************************************)
(* Properties of repeated calls (SpecRepeat)                               *)
(***************************************************************************)
\* the call did not end because a file could not be written
NoSinkFailure(e) == e = None \/ e.type # "OSError"

=============================================================================
